---------------------------- MODULE Spec2Model ----------------------------
(***************************************************************************)
(* State-machine model of src/app.py, the biometric authentication API:    *)
(* the face and voice galleries loaded at import time and the four POST    *)
(* handlers recognize_face, recognize_voice, combined_authentication and   *)
(* lip_sync_check.  Every handler is one action: it draws a request, runs  *)
(* the handler's code to its exit and leaves the response, the handler's   *)
(* local variables at exit and the staged temporary files still on disk.  *)
(*                                                                         *)
(* Numbers.  Python floats are modelled as exact reals on a grid:          *)
(*   - a face distance is held as floor(20000 * dist)  ("H units"), so     *)
(*     dist < 0.6 is DistH < 12000 exactly; a face score in percent is     *)
(*     held as 200 * score rounded up, so score > 70 is ScoreH > 14000     *)
(*     exactly;                                                            *)
(*   - a cosine similarity is held as 20000 * cos, exact for the voice     *)
(*     vectors drawn here (all of integer norm);                           *)
(*   - variance and confidence of the lip-sync analysis are exact          *)
(*     fractions <<numerator, denominator>>.                               *)
(***************************************************************************)
EXTENDS Integers, Sequences, FiniteSets, TLC

VARIABLES face_data, voice_data, req, resp, loc, tmp

vars == <<face_data, voice_data, req, resp, loc, tmp>>

---------------------------------------------------------------------------
(* Bounds of the model *)

\* face vectors are <<x, y>> with x in 0..MaxFaceCoord, y in 0..1, in units of 0.2
MaxFaceCoord == 5
\* at most this many faces in one image
MaxFaces == 2
\* voice vectors have coordinates of absolute value <= MaxVoiceCoord
MaxVoiceCoord == 5
\* at most this many video frames in one lip-sync request
MaxFrames == 11

(* Program constants, in the units above *)

\* match_face(threshold=0.6) and `if dist < 0.6`
FACE_THRESHOLD == 12000
\* `if similarity >= 0.60` / `highest_similarity >= 0.60`
VOICE_THRESHOLD == 12000
\* `similarity > 70`, in 1/200 percent
FACE_HIGH == 14000
\* `similarity > 40`, in 1/200 percent
FACE_MEDIUM == 8000
\* `similarity_percent > 75`, in 1/200 percent
VOICE_HIGH == 15000
\* `len(wav_data) < 16000`
MIN_SAMPLES == 16000
\* `len(lip_movements) < 10`
MIN_LIP_FRAMES == 10
\* `audio_size > 1000`
MIN_AUDIO_BYTES == 1000
\* `highest_similarity = -1`, in 1/20000
INITIAL_SIMILARITY == -20000

None == <<>>
Some(x) == <<x>>

---------------------------------------------------------------------------
(* numpy helpers *)

RECURSIVE ISqrtBisect(_, _, _)
ISqrtBisect(n, lo, hi) ==
    IF lo = hi THEN lo
    ELSE LET mid == (lo + hi + 1) \div 2
         IN  IF mid * mid <= n THEN ISqrtBisect(n, mid, hi)
                               ELSE ISqrtBisect(n, lo, mid - 1)

\* floor(sqrt(n)), n < 2^31
ISqrt(n) == ISqrtBisect(n, 0, 46340)

Dot(a, b) == a[1] * b[1] + a[2] * b[2]

Sub(a, b) == <<a[1] - b[1], a[2] - b[2]>>

\* np.linalg.norm(encoding - known_encoding) of face vectors in units of 0.2:
\* floor(20000 * 0.2 * sqrt(d . d)) = floor(sqrt(16000000 * d . d))
FaceDist(encoding, known_encoding) ==
    LET d == Sub(encoding, known_encoding)
    IN  ISqrt(16000000 * Dot(d, d))

\* max(0.0, 1.0 - dist) * 100, in 1/200 percent
FaceSimilarity(dist) == IF 20000 - dist > 0 THEN 20000 - dist ELSE 0

\* round(similarity, 2): 1/200 percent to 1/100 percent.  The value held is
\* the real score rounded up to the grid, and a real score on the grid is an
\* even number of units, so nearest is the floor of the half.
Round2(similarity) == similarity \div 2

\* np.linalg.norm of a voice vector (of integer norm)
VoiceNorm(v) == ISqrt(Dot(v, v))

\* np.dot(a, b) / (np.linalg.norm(a) * np.linalg.norm(b)), in 1/20000
CosineSimilarity(a, b) == (20000 * Dot(a, b)) \div (VoiceNorm(a) * VoiceNorm(b))

\* max(0, similarity * 100), in 1/200 percent
VoicePercent(similarity) == IF similarity > 0 THEN similarity ELSE 0

(* Exact fractions <<numerator, denominator>>, denominator > 0, in lowest terms *)

RECURSIVE GCD(_, _)
GCD(a, b) == IF b = 0 THEN a ELSE GCD(b, a % b)

Frac(n, d) ==
    LET g == GCD(IF n < 0 THEN -n ELSE n, d)
    IN  <<n \div g, d \div g>>

FracAdd(a, b) == Frac(a[1] * b[2] + b[1] * a[2], a[2] * b[2])
FracMul(a, b) == Frac(a[1] * b[1], a[2] * b[2])
FracLT(a, b) == a[1] * b[2] < b[1] * a[2]
FracMin(a, b) == IF FracLT(b, a) THEN b ELSE a
FracMax(a, b) == IF FracLT(a, b) THEN b ELSE a

\* round(x, digits) with scale = 10^digits: the nearest multiple of 1/scale,
\* a tie going to the even one
Round(x, scale) ==
    LET n == x[1] * scale
        q == n \div x[2]
        r == n % x[2]
    IN  IF 2 * r < x[2] THEN q
        ELSE IF 2 * r > x[2] THEN q + 1
        ELSE IF q % 2 = 0 THEN q ELSE q + 1

RECURSIVE SeqSum(_)
SeqSum(s) == IF s = <<>> THEN 0 ELSE Head(s) + SeqSum(Tail(s))

\* np.var(distances) of lip gaps held in units of 0.01:
\* (n * sum(x^2) - sum(x)^2) / n^2, in units of 0.0001
Variance(distances) ==
    LET n == Len(distances)
    IN  Frac(n * SeqSum([i \in 1..n |-> distances[i] * distances[i]])
             - SeqSum(distances) * SeqSum(distances),
             n * n * 10000)

---------------------------------------------------------------------------
(* The galleries: dicts, held as sequences in their iteration order *)

Profiles == {"Fenny", "George", "Jovin"}

HasKey(d, k) == \E i \in 1..Len(d) : d[i].name = k

Lookup(d, k) == d[CHOOSE i \in 1..Len(d) : d[i].name = k].vec

E(n, v) == [name |-> n, vec |-> v]

\* the pickled models a deployment may start from (none, partial, full)
Galleries ==
    { [face |-> <<>>, voice |-> <<>>],
      [face  |-> <<E("Fenny", <<0, 0>>), E("George", <<4, 0>>)>>,
       voice |-> <<E("Fenny", <<5, 0>>)>>],
      [face  |-> <<E("George", <<4, 0>>), E("Jovin", <<2, 1>>), E("Fenny", <<0, 0>>)>>,
       voice |-> <<E("George", <<3, 4>>), E("Fenny", <<5, 0>>), E("Jovin", <<-4, 3>>)>>] }

---------------------------------------------------------------------------
(* Request inputs *)

FaceVecs == (0..MaxFaceCoord) \X (0..1)

\* the encodings face_recognition finds in a decodable image, one per face
FaceSamples == UNION { [1..n -> FaceVecs] : n \in 0..MaxFaces }

\* image_data of /api/face-recognition: undecodable, or an image
Images ==
    { [kind |-> "malformed", faces |-> <<>>] }
    \cup { [kind |-> "image", faces |-> f] : f \in FaceSamples }

\* image_data of /api/authenticate: Form(None) may be absent; the handler
\* reads face_encodings[0] only, so the further faces are all <<0, 0>>
AuthImages ==
    { [kind |-> "absent", faces |-> <<>>] }
    \cup { img \in Images : \A i \in 2..Len(img.faces) : img.faces[i] = <<0, 0>> }

\* embeddings: the vectors of integer norm, so that a cosine is exact
VoiceVecs ==
    { v \in (-MaxVoiceCoord..MaxVoiceCoord) \X (0..MaxVoiceCoord) :
        /\ Dot(v, v) > 0
        /\ ISqrt(Dot(v, v)) * ISqrt(Dot(v, v)) = Dot(v, v) }

\* an uploaded audio file: whether audio_file.read() returns, whether
\* preprocess_wav decodes it, len(wav_data), whether embed_utterance
\* returns, and the embedding
Audio(r, d, n, x, v) ==
    [kind |-> "upload", read |-> r, decodable |-> d, samples |-> n,
     extract |-> x, emb |-> v]

Audios ==
    { Audio(FALSE, FALSE, 0, FALSE, <<1, 0>>),
      Audio(TRUE, FALSE, 0, FALSE, <<1, 0>>),
      Audio(TRUE, TRUE, MIN_SAMPLES - 1, TRUE, <<1, 0>>),
      Audio(TRUE, TRUE, MIN_SAMPLES, FALSE, <<1, 0>>) }
    \cup { Audio(TRUE, TRUE, MIN_SAMPLES, TRUE, v) : v \in VoiceVecs }

\* audio_file of /api/authenticate: File(None) may be absent
AuthAudios ==
    { [kind |-> "absent", read |-> FALSE, decodable |-> FALSE, samples |-> 0,
       extract |-> FALSE, emb |-> <<1, 0>>] }
    \cup Audios

Modes == {"face", "voice", "both", "iris"}

\* a video frame: the lip gap the face mesh measures in it (in units of
\* 0.01), or NoFace
NoFace == -1

\* the lip gaps of a closed and of an open mouth
GapPairs == { <<2, 13>>, <<0, 40>>, <<5, 6>>, <<0, 5>> }

\* n frames: `lead` without a face, then k of the open gap, the rest closed
Frames(n, lead, k, pair) ==
    [i \in 1..n |-> IF i <= lead THEN NoFace
                    ELSE IF i <= lead + k THEN pair[2] ELSE pair[1]]

FrameSeqs ==
    { Frames(n, lead, k, pair) :
        n \in 0..MaxFrames, lead \in 0..1, k \in 0..MaxFrames, pair \in GapPairs }

\* video_data: whether base64 decodes, whether the face mesh runs through,
\* and the frames cv2 reads
Videos ==
    { [b64 |-> FALSE, extract |-> TRUE, frames |-> <<>>],
      [b64 |-> TRUE, extract |-> FALSE, frames |-> Frames(MIN_LIP_FRAMES, 0, 5, <<0, 40>>)] }
    \cup { [b64 |-> TRUE, extract |-> TRUE, frames |-> f] : f \in FrameSeqs }

\* audio_data: whether read() returns, and len(audio_content)
LipAudios ==
    { [read |-> FALSE, size |-> 0] }
    \cup { [read |-> TRUE, size |-> n] :
             n \in {0, MIN_AUDIO_BYTES, MIN_AUDIO_BYTES + 1, 2 * MIN_AUDIO_BYTES} }

ProfileNames == Profiles \cup {"Mallory"}

\* thresholds match_face is called with
Thresholds == {FACE_THRESHOLD, FACE_THRESHOLD \div 2, 20000}

---------------------------------------------------------------------------
(* decode_base64_image: the image array, or HTTPException(400) *)

decode_base64_image(image) ==
    IF image.kind = "image"
    THEN [ok |-> TRUE, faces |-> image.faces]
    ELSE [ok |-> FALSE, faces |-> <<>>]

---------------------------------------------------------------------------
(* match_face *)

\* Closer with `<=`: the last of equally near entries wins
CloserOrEqual(dist, best) == best.inf \/ dist <= best.dist

\* `if dist < best_dist`, best_dist starting at float("inf")
Closer(dist, best) == best.inf \/ dist < best.dist

RECURSIVE MatchFaceScan(_, _, _, _)
MatchFaceScan(encoding, fd, i, best) ==
    IF i > Len(fd) THEN best
    ELSE LET dist == FaceDist(encoding, fd[i].vec)
         IN  MatchFaceScan(encoding, fd, i + 1,
                 IF Closer(dist, best)
                 THEN [best_match |-> Some(fd[i].name), inf |-> FALSE, dist |-> dist]
                 ELSE best)

\* the locals at return and the tuple returned
match_face(encoding, fd, threshold) ==
    LET best == MatchFaceScan(encoding, fd, 1,
                    [best_match |-> None, inf |-> TRUE, dist |-> 0])
        similarity == IF best.inf THEN 0 ELSE FaceSimilarity(best.dist)
    IN  [encoding   |-> encoding,
         threshold  |-> threshold,
         best_match |-> best.best_match,
         best_inf   |-> best.inf,
         best_dist  |-> best.dist,
         name       |-> IF ~best.inf /\ best.dist < threshold
                        THEN best.best_match ELSE None,
         similarity |-> similarity]

\* "high" if similarity > 70 else "medium" if similarity > 40 else "low"
FaceConfidence(similarity) ==
    IF similarity > FACE_HIGH THEN "high"
    ELSE IF similarity > FACE_MEDIUM THEN "medium" ELSE "low"

---------------------------------------------------------------------------
(* The server handles one request to its response, then waits for the next.
   tmp holds the temporary files the request in hand has created and that
   are still on disk. *)

NoRequest == [endpoint |-> "none"]
NoResponse == [status |-> 0, raised |-> FALSE]
NoLocals == [calls |-> <<>>]

Idle == req = NoRequest

\* uvicorn sends the response and awaits the next request
respond ==
    /\ ~Idle
    /\ req' = NoRequest
    /\ resp' = NoResponse
    /\ loc' = NoLocals
    /\ tmp' = {}
    /\ UNCHANGED <<face_data, voice_data>>

---------------------------------------------------------------------------
(* POST /api/face-recognition *)

RECURSIVE FaceResults(_, _)
FaceResults(calls, i) ==
    IF i > Len(calls) THEN <<>>
    ELSE (IF calls[i].name # None
          THEN << [name       |-> calls[i].name[1],
                   similarity |-> Round2(calls[i].similarity),
                   confidence |-> FaceConfidence(calls[i].similarity)] >>
          ELSE <<>>) \o FaceResults(calls, i + 1)

recognize_face_run(image, fd) ==
    LET img == decode_base64_image(image)
    IN  IF ~img.ok
        THEN \* HTTPException(400) caught by `except Exception`, raised as 500
             [resp |-> [status |-> 500, raised |-> TRUE,
                        detail |-> <<"Face recognition failed", "Invalid image data">>],
              loc  |-> [calls |-> <<>>]]
        ELSE IF Len(img.faces) = 0
        THEN [resp |-> [status |-> 200, raised |-> FALSE, success |-> FALSE,
                        message |-> <<"No face detected in the image">>,
                        matches |-> <<>>],
              loc  |-> [calls |-> <<>>]]
        ELSE LET calls == [i \in 1..Len(img.faces) |->
                              match_face(img.faces[i], fd, FACE_THRESHOLD)]
             IN  [resp |-> [status |-> 200, raised |-> FALSE, success |-> TRUE,
                            message |-> <<"Processed faces", Len(img.faces)>>,
                            matches |-> FaceResults(calls, 1)],
                  loc  |-> [calls |-> calls]]

recognize_face ==
    /\ Idle
    /\ \E image \in Images :
        LET r == recognize_face_run(image, face_data)
        IN  /\ req' = [endpoint |-> "face-recognition", image_data |-> image]
            /\ resp' = r.resp
            /\ loc' = r.loc
            /\ tmp' = {}
            /\ UNCHANGED <<face_data, voice_data>>

\* match_face called on its own, with any threshold
call_match_face ==
    /\ Idle
    /\ \E encoding \in FaceVecs, threshold \in Thresholds :
        /\ req' = [endpoint |-> "match_face", encoding |-> encoding,
                   threshold |-> threshold]
        /\ resp' = NoResponse
        /\ loc' = [calls |-> << match_face(encoding, face_data, threshold) >>]
        /\ tmp' = {}
        /\ UNCHANGED <<face_data, voice_data>>

---------------------------------------------------------------------------
(* POST /api/voice-recognition *)

\* `if similarity > highest_similarity`
Higher(similarity, highest_similarity) == similarity > highest_similarity

RECURSIVE VoiceScan(_, _, _, _)
VoiceScan(input_embedding, vd, i, best) ==
    IF i > Len(vd) THEN best
    ELSE LET similarity == CosineSimilarity(input_embedding, vd[i].vec)
         IN  VoiceScan(input_embedding, vd, i + 1,
                 IF Higher(similarity, best.highest_similarity)
                 THEN [best_match |-> Some(vd[i].name),
                       highest_similarity |-> similarity]
                 ELSE best)

\* `similarity >= 0.60` and `highest_similarity >= 0.60`
VoiceAccepts(similarity) == similarity >= VOICE_THRESHOLD

\* "high" if similarity_percent > 75 else "medium"
VoiceConfidence(similarity_percent) ==
    IF similarity_percent > VOICE_HIGH THEN "high" ELSE "medium"

\* `if best_match and highest_similarity >= 0.60: results.append(...)`
VoiceResults(best) ==
    IF best.best_match # None /\ VoiceAccepts(best.highest_similarity)
    THEN << [name       |-> best.best_match[1],
             similarity |-> Round2(VoicePercent(best.highest_similarity)),
             confidence |-> VoiceConfidence(VoicePercent(best.highest_similarity))] >>
    ELSE <<>>

VoiceFailed ==
    [status |-> 500, raised |-> TRUE, detail |-> <<"Voice recognition failed">>]

NoScan == [scanned |-> FALSE, best_match |-> None, highest_similarity |-> 0]

recognize_voice_run(audio, vd) ==
    IF ~audio.read
    THEN \* the read raises inside `with NamedTemporaryFile(delete=False)`,
         \* before the try/finally that unlinks
         [resp |-> VoiceFailed, loc |-> NoScan, tmp |-> {"audio.wav"}]
    ELSE IF ~audio.decodable
    THEN [resp |-> VoiceFailed, loc |-> NoScan, tmp |-> {}]
    ELSE IF audio.samples < MIN_SAMPLES
    THEN [resp |-> [status |-> 200, raised |-> FALSE, success |-> FALSE,
                    message |-> <<"Audio too short or unclear">>,
                    matches |-> <<>>],
          loc  |-> NoScan, tmp |-> {}]
    ELSE IF ~audio.extract
    THEN [resp |-> VoiceFailed, loc |-> NoScan, tmp |-> {}]
    ELSE LET best == VoiceScan(audio.emb, vd, 1,
                         [best_match |-> None,
                          highest_similarity |-> INITIAL_SIMILARITY])
         IN  [resp |-> [status |-> 200, raised |-> FALSE, success |-> TRUE,
                        message |-> <<"Voice processed successfully">>,
                        matches |-> VoiceResults(best),
                        best_similarity |->
                            IF best.best_match # None
                            THEN Round2(VoicePercent(best.highest_similarity))
                            ELSE 0],
              loc  |-> [scanned |-> TRUE, best_match |-> best.best_match,
                        highest_similarity |-> best.highest_similarity],
              tmp  |-> {}]

recognize_voice ==
    /\ Idle
    /\ \E audio \in Audios :
        LET r == recognize_voice_run(audio, voice_data)
        IN  /\ req' = [endpoint |-> "voice-recognition", audio_file |-> audio]
            /\ resp' = r.resp
            /\ loc' = r.loc
            /\ tmp' = r.tmp
            /\ UNCHANGED <<face_data, voice_data>>

---------------------------------------------------------------------------
(* POST /api/authenticate *)

\* `if mode in ["face", "both"] and image_data`
FaceRequested(mode, image) == mode \in {"face", "both"} /\ image.kind # "absent"

\* VoiceRequested without the test that a file was uploaded
VoiceRequestedAnyway(mode, audio) == mode \in {"voice", "both"}

\* `if mode in ["voice", "both"] and audio_file`
VoiceRequested(mode, audio) == mode \in {"voice", "both"} /\ audio.kind # "absent"

\* FaceAccepts with `<=`
FaceAcceptsInclusive(dist) == dist <= FACE_THRESHOLD

\* `if dist < 0.6`
FaceAccepts(dist) == dist < FACE_THRESHOLD

\* the record of a verified face: positive, or the explicit "No match"
FaceMatchRecord(profile, dist) ==
    LET similarity == FaceSimilarity(dist)
    IN  IF FaceAccepts(dist)
        THEN [name       |-> profile,
              similarity |-> Round2(similarity),
              confidence |-> IF similarity > FACE_HIGH THEN "high" ELSE "medium"]
        ELSE [name       |-> "No match",
              similarity |-> Round2(similarity),
              confidence |-> "low"]

FaceSkipped(message) ==
    [face_success |-> FALSE, face_match |-> None, message |-> message,
     dist |-> None]

\* FaceVerify leaving out the record of a face that does not match
FaceVerifyOmitting(profile, encoding, known_encoding) ==
    LET dist == FaceDist(encoding, known_encoding)
    IN  [face_success |-> FaceAccepts(dist),
         face_match   |-> IF FaceAccepts(dist)
                          THEN Some(FaceMatchRecord(profile, dist)) ELSE None,
         message      |-> <<>>,
         dist         |-> Some(dist)]

\* "Match against specific profile": face_encodings[0] against face_data[profile]
FaceVerify(profile, encoding, known_encoding) ==
    LET dist == FaceDist(encoding, known_encoding)
    IN  [face_success |-> FaceAccepts(dist),
         face_match   |-> Some(FaceMatchRecord(profile, dist)),
         message      |-> <<>>,
         dist         |-> Some(dist)]

\* the face block of the handler
face_authentication(mode, profile, image, fd) ==
    IF ~FaceRequested(mode, image) THEN FaceSkipped(<<>>)
    ELSE LET img == decode_base64_image(image)
         IN  IF ~img.ok
             THEN \* HTTPException(400) caught by the block's `except Exception`
                  FaceSkipped(<<"Face recognition error">>)
             ELSE IF Len(img.faces) = 0
             THEN FaceSkipped(<<"No face detected in image">>)
             ELSE IF ~HasKey(fd, profile)
             THEN FaceSkipped(<<"Profile not found in face models">>)
             ELSE FaceVerify(profile, img.faces[1], Lookup(fd, profile))

\* the record of a verified voice: positive, or the explicit "No match"
VoiceMatchRecord(profile, similarity) ==
    LET similarity_percent == VoicePercent(similarity)
    IN  IF VoiceAccepts(similarity)
        THEN [name       |-> profile,
              similarity |-> Round2(similarity_percent),
              confidence |-> VoiceConfidence(similarity_percent)]
        ELSE [name       |-> "No match",
              similarity |-> Round2(similarity_percent),
              confidence |-> "low"]

VoiceSkipped(message, files) ==
    [voice_success |-> FALSE, voice_match |-> None, message |-> message,
     similarity |-> None, tmp |-> files]

\* "Match against specific profile": the embedding against voice_data[profile];
\* the staged file is unlinked by the `finally`
VoiceVerify(profile, input_embedding, stored_embedding) ==
    LET similarity == CosineSimilarity(input_embedding, stored_embedding)
    IN  [voice_success |-> VoiceAccepts(similarity),
         voice_match   |-> Some(VoiceMatchRecord(profile, similarity)),
         message       |-> <<>>,
         similarity    |-> Some(similarity),
         tmp           |-> {}]

\* the voice block of the handler
voice_authentication(mode, profile, audio, vd) ==
    IF ~VoiceRequested(mode, audio) THEN VoiceSkipped(<<>>, {})
    ELSE IF ~audio.read
    THEN \* raised inside `with NamedTemporaryFile(delete=False)`, before the
         \* try/finally that unlinks
         VoiceSkipped(<<"Voice recognition error">>, {"audio.wav"})
    ELSE IF ~audio.decodable
    THEN VoiceSkipped(<<"Voice recognition error">>, {})
    ELSE IF audio.samples < MIN_SAMPLES
    THEN VoiceSkipped(<<"Audio too short or unclear">>, {})
    ELSE IF ~audio.extract
    THEN VoiceSkipped(<<"Voice recognition error">>, {})
    ELSE IF ~HasKey(vd, profile)
    THEN VoiceSkipped(<<"Profile not found in voice models">>, {})
    ELSE VoiceVerify(profile, audio.emb, Lookup(vd, profile))

\* Fuse with "both" decided by the voice alone
FuseVoiceForBoth(mode, face_success, voice_success) ==
    IF mode = "face" THEN face_success
    ELSE IF mode = "voice" THEN voice_success
    ELSE IF mode = "both" THEN voice_success
    ELSE FALSE

\* Fuse with "both" passing on either modality
FuseEither(mode, face_success, voice_success) ==
    IF mode = "face" THEN face_success
    ELSE IF mode = "voice" THEN voice_success
    ELSE IF mode = "both" THEN face_success \/ voice_success
    ELSE FALSE

\* "Determine overall success"
Fuse(mode, face_success, voice_success) ==
    IF mode = "face" THEN face_success
    ELSE IF mode = "voice" THEN voice_success
    ELSE IF mode = "both" THEN face_success /\ voice_success
    ELSE FALSE

FinalMessage(success, message) ==
    IF success THEN <<"Authentication successful">>
    ELSE IF message = <<>> THEN <<"Authentication failed">>
    ELSE message

combined_authentication_run(mode, profile, image, audio, fd, vd) ==
    LET f == face_authentication(mode, profile, image, fd)
        v == voice_authentication(mode, profile, audio, vd)
        passed == Fuse(mode, f.face_success, v.voice_success)
    IN  [resp |-> [status |-> 200, raised |-> FALSE,
                   success |-> passed,
                   message |-> FinalMessage(passed, f.message \o v.message),
                   face_match |-> f.face_match,
                   voice_match |-> v.voice_match,
                   authentication_passed |-> passed],
         loc  |-> [face_success |-> f.face_success,
                   voice_success |-> v.voice_success,
                   dist |-> f.dist,
                   similarity |-> v.similarity,
                   diagnostics |-> f.message \o v.message],
         tmp  |-> v.tmp]

combined_authentication ==
    /\ Idle
    /\ \E mode \in Modes, profile \in ProfileNames,
          image \in AuthImages, audio \in AuthAudios :
        LET r == combined_authentication_run(mode, profile, image, audio,
                                             face_data, voice_data)
        IN  /\ req' = [endpoint |-> "authenticate", mode |-> mode,
                       profile |-> profile, image_data |-> image,
                       audio_file |-> audio]
            /\ resp' = r.resp
            /\ loc' = r.loc
            /\ tmp' = r.tmp
            /\ UNCHANGED <<face_data, voice_data>>

---------------------------------------------------------------------------
(* POST /api/lip-sync-check *)

\* one lip_movements entry per frame with a face, numbered by frame_count
RECURSIVE LipMovements(_, _)
LipMovements(frames, i) ==
    IF i > Len(frames) THEN <<>>
    ELSE (IF frames[i] # NoFace
          THEN << [frame |-> i, lip_distance |-> frames[i]] >>
          ELSE <<>>) \o LipMovements(frames, i + 1)

\* Insufficient with the bound one too low
InsufficientBelowNine(lip_movements) == Len(lip_movements) < MIN_LIP_FRAMES - 1

\* `if len(lip_movements) < 10: raise`
Insufficient(lip_movements) == Len(lip_movements) < MIN_LIP_FRAMES

\* `movement_variance > movement_threshold`, movement_threshold = 0.001
HasSignificantMovement(movement_variance) == FracLT(<<1, 1000>>, movement_variance)

\* HasAudio with `>=`
HasAudioInclusive(audio_size) == audio_size >= MIN_AUDIO_BYTES

\* `audio_size > 1000`
HasAudio(audio_size) == audio_size > MIN_AUDIO_BYTES

\* Confidence without the cap of 0.95
ConfidenceUncapped(lip_sync_detected, movement_variance) ==
    IF lip_sync_detected
    THEN FracAdd(<<3, 5>>, FracMul(movement_variance, <<1000, 1>>))
    ELSE FracMax(<<1, 10>>, FracMul(movement_variance, <<500, 1>>))

\* min(0.95, 0.6 + variance * 1000) if detected else max(0.1, variance * 500)
Confidence(lip_sync_detected, movement_variance) ==
    IF lip_sync_detected
    THEN FracMin(<<19, 20>>, FracAdd(<<3, 5>>, FracMul(movement_variance, <<1000, 1>>)))
    ELSE FracMax(<<1, 10>>, FracMul(movement_variance, <<500, 1>>))

\* the body of the outer `except Exception`; the analysis object of a
\* response is held without its rounded movement_variance, movement_mean and
\* duration_analyzed
LipSyncError(e) ==
    [status |-> 500, raised |-> FALSE, success |-> FALSE,
     lip_sync_detected |-> FALSE, confidence |-> 0,
     message |-> <<"Error during lip sync analysis", e>>,
     analysis |-> [frames_processed |-> 0, audio_samples |-> 0, error |-> e]]

LipLocals(stage, lip_movements) == [stage |-> stage, lip_movements |-> lip_movements]

lip_sync_check_run(video, audio) ==
    IF ~video.b64
    THEN \* base64.b64decode raises before any file is staged
         [resp |-> LipSyncError("Incorrect padding"),
          loc  |-> LipLocals("decode", <<>>), tmp |-> {}]
    ELSE IF ~audio.read
    THEN \* the video file is on disk, the try/finally not yet entered
         [resp |-> LipSyncError("read failed"),
          loc  |-> LipLocals("read", <<>>), tmp |-> {"video.webm"}]
    ELSE IF ~video.extract
    THEN [resp |-> LipSyncError("face mesh failed"),
          loc  |-> LipLocals("extract", <<>>), tmp |-> {}]
    ELSE LET lip_movements == LipMovements(video.frames, 1)
         IN  IF Insufficient(lip_movements)
             THEN [resp |-> LipSyncError("Insufficient video data for lip sync analysis"),
                   loc  |-> LipLocals("insufficient", lip_movements),
                   tmp  |-> {}]
             ELSE LET distances == [i \in 1..Len(lip_movements) |->
                                       lip_movements[i].lip_distance]
                      movement_variance == Variance(distances)
                      has_significant_movement == HasSignificantMovement(movement_variance)
                      has_audio == HasAudio(audio.size)
                      lip_sync_detected == has_significant_movement /\ has_audio
                      confidence == Confidence(lip_sync_detected, movement_variance)
                  IN  [resp |-> [status |-> 200, raised |-> FALSE, success |-> TRUE,
                                 lip_sync_detected |-> lip_sync_detected,
                                 confidence |-> Round(confidence, 1000),
                                 message |-> IF lip_sync_detected
                                             THEN <<"Lip sync verified successfully!">>
                                             ELSE <<"Lip sync verification failed - insufficient lip movement detected.">>,
                                 analysis |->
                                   [frames_processed |-> Len(lip_movements),
                                    audio_samples |-> audio.size,
                                    has_significant_movement |-> has_significant_movement,
                                    has_audio |-> has_audio]],
                       loc  |-> [stage |-> "analysed",
                                 lip_movements |-> lip_movements,
                                 movement_variance |-> movement_variance,
                                 confidence |-> confidence],
                       tmp  |-> {}]

lip_sync_check ==
    /\ Idle
    /\ \E video \in Videos, audio \in LipAudios :
        LET r == lip_sync_check_run(video, audio)
        IN  /\ req' = [endpoint |-> "lip-sync-check", video_data |-> video,
                       audio_data |-> audio]
            /\ resp' = r.resp
            /\ loc' = r.loc
            /\ tmp' = r.tmp
            /\ UNCHANGED <<face_data, voice_data>>

---------------------------------------------------------------------------

Init ==
    /\ \E g \in Galleries : face_data = g.face /\ voice_data = g.voice
    /\ req = NoRequest
    /\ resp = NoResponse
    /\ loc = NoLocals
    /\ tmp = {}

Next ==
    \/ recognize_face
    \/ call_match_face
    \/ recognize_voice
    \/ combined_authentication
    \/ lip_sync_check
    \/ respond

Spec == Init /\ [][Next]_vars

---------------------------------------------------------------------------
(* The claims' own arithmetic: squared distances and cross-multiplied
   cosines, free of square roots *)

IsAuth == req.endpoint = "authenticate"

\* |a - b|^2 in units of 0.04
SqDist(a, b) == Dot(Sub(a, b), Sub(a, b))

\* the request brings an image that decodes and shows a face
FaceSampled == req.image_data.kind = "image" /\ Len(req.image_data.faces) >= 1

\* the request brings audio that is read, decodes to a second or more and embeds
VoiceSampled ==
    /\ req.audio_file.kind = "upload"
    /\ req.audio_file.read
    /\ req.audio_file.decodable
    /\ req.audio_file.samples >= 16000
    /\ req.audio_file.extract

\* Euclidean distance to the profile's face template < 0.6: |d|^2 < 0.36
FaceWithin ==
    /\ FaceSampled
    /\ HasKey(face_data, req.profile)
    /\ SqDist(req.image_data.faces[1], Lookup(face_data, req.profile)) < 9

\* cosine similarity to the profile's voice template >= 0.6:
\* a.b >= 0 and 25 (a.b)^2 >= 9 |a|^2 |b|^2
VoiceWithin ==
    /\ VoiceSampled
    /\ HasKey(voice_data, req.profile)
    /\ LET a == req.audio_file.emb
           b == Lookup(voice_data, req.profile)
       IN  /\ Dot(a, b) >= 0
           /\ 25 * Dot(a, b) * Dot(a, b) >= 9 * Dot(a, a) * Dot(b, b)

---------------------------------------------------------------------------
\* C1: every /api/authenticate request with mode "both" passes if and only
\* if the face distance to the named profile's template is < 0.6 and the
\* voice similarity to its template is >= 0.60; a modality with no input,
\* no sample or no template does not meet its threshold.
C1_BothPassesIffBothWithin ==
    (IsAuth /\ req.mode = "both")
        => (resp.authentication_passed <=> (FaceWithin /\ VoiceWithin))

\* a "both" request that passes, and the server has seen one modality fail too
C1_Witness ==
    /\ IsAuth
    /\ req.mode = "both"
    /\ resp.authentication_passed
    /\ resp.face_match # None
    /\ resp.voice_match # None

---------------------------------------------------------------------------
\* C2: no request ends with a temporary file it staged still on disk,
\* whichever way the handler is left.
C2_StagedFilesReleased == tmp = {}

---------------------------------------------------------------------------
(* C3 *)

FaceDiagnostics ==
    { "Face recognition error", "No face detected in image",
      "Profile not found in face models" }

VoiceDiagnostics ==
    { "Voice recognition error", "Audio too short or unclear",
      "Profile not found in voice models" }

Elements(s) == { s[i] : i \in 1..Len(s) }

MessageFrom(diagnostics) ==
    /\ Elements(loc.diagnostics) \subseteq diagnostics
    /\ resp.message = IF loc.diagnostics = <<>>
                      THEN <<"Authentication failed">> ELSE loc.diagnostics

\* C3: in mode "both" with exactly one input absent, the supplied modality
\* is evaluated as usual, the missing one's success flag stays false, the
\* request does not pass, and the message holds nothing about the missing
\* input.
C3_MissingInputIsSilent ==
    /\ (IsAuth /\ req.mode = "both"
          /\ req.image_data.kind # "absent" /\ req.audio_file.kind = "absent")
        => /\ loc.face_success <=> FaceWithin
           /\ (resp.face_match # None) <=> (FaceSampled /\ HasKey(face_data, req.profile))
           /\ ~loc.voice_success
           /\ resp.voice_match = None
           /\ ~resp.authentication_passed
           /\ MessageFrom(FaceDiagnostics)
           /\ tmp = {}
    /\ (IsAuth /\ req.mode = "both"
          /\ req.image_data.kind = "absent" /\ req.audio_file.kind # "absent")
        => /\ loc.voice_success <=> VoiceWithin
           /\ (resp.voice_match # None) <=> (VoiceSampled /\ HasKey(voice_data, req.profile))
           /\ ~loc.face_success
           /\ resp.face_match = None
           /\ ~resp.authentication_passed
           /\ MessageFrom(VoiceDiagnostics)

\* the face matches, the audio is missing, and the message is the bare failure
C3_Witness ==
    /\ IsAuth
    /\ req.mode = "both"
    /\ req.audio_file.kind = "absent"
    /\ loc.face_success
    /\ resp.face_match # None
    /\ ~resp.authentication_passed
    /\ resp.message = <<"Authentication failed">>

---------------------------------------------------------------------------
(* C4 *)

\* C4 as claimed: every request whose mode asks for a modality whose template
\* the named profile has carries an outcome record for that modality.
C4_RecordWheneverTemplate ==
    IsAuth =>
        /\ (req.mode \in {"face", "both"} /\ HasKey(face_data, req.profile))
              => resp.face_match # None
        /\ (req.mode \in {"voice", "both"} /\ HasKey(voice_data, req.profile))
              => resp.voice_match # None

\* the face score in 1/100 percent, from the squared distance d2: the s with
\* 100 - s/100 the distance 0.2 sqrt(d2) in percent, rounded to the nearest
FaceScoreIs(s, d2) ==
    IF d2 >= 25 THEN s = 0
    ELSE /\ s \in 0..10000
         /\ \/ s = 10000
            \/ (2 * (10000 - s) - 1) * (2 * (10000 - s) - 1) <= 16000000 * d2
         /\ 16000000 * d2 < (2 * (10000 - s) + 1) * (2 * (10000 - s) + 1)

\* the voice score in 1/100 percent: max(0, cos) * 100, exact on the grid
VoiceScoreIs(s, a, b) ==
    IF Dot(a, b) <= 0 THEN s = 0
    ELSE \E na, nb \in 1..(2 * MaxVoiceCoord) :
            /\ na * na = Dot(a, a)
            /\ nb * nb = Dot(b, b)
            /\ s * na * nb = 10000 * Dot(a, b)

\* C4, amended: a request whose mode asks for a modality, that brings a
\* sample of it (an image that decodes and shows a face; audio that is read,
\* decodes to 16000 samples or more and embeds) and names a profile that has
\* the template, carries exactly one record for the modality: the one naming
\* the profile if the threshold is met, else the "No match" one, each with
\* the computed score.
C4_RecordWheneverVerified ==
    IsAuth =>
        /\ (req.mode \in {"face", "both"} /\ FaceSampled /\ HasKey(face_data, req.profile))
              => /\ Len(resp.face_match) = 1
                 /\ resp.face_match[1].name = IF FaceWithin THEN req.profile ELSE "No match"
                 /\ FaceScoreIs(resp.face_match[1].similarity,
                        SqDist(req.image_data.faces[1], Lookup(face_data, req.profile)))
        /\ (req.mode \in {"voice", "both"} /\ VoiceSampled /\ HasKey(voice_data, req.profile))
              => /\ Len(resp.voice_match) = 1
                 /\ resp.voice_match[1].name = IF VoiceWithin THEN req.profile ELSE "No match"
                 /\ VoiceScoreIs(resp.voice_match[1].similarity,
                        req.audio_file.emb, Lookup(voice_data, req.profile))

\* both records are the explicit "No match", the face one with a score above 0
C4_Witness ==
    /\ IsAuth
    /\ req.mode = "both"
    /\ resp.face_match # None
    /\ resp.voice_match # None
    /\ resp.face_match[1].name = "No match"
    /\ resp.face_match[1].similarity > 0
    /\ resp.voice_match[1].name = "No match"

---------------------------------------------------------------------------
(* C5 *)

MatchFaceCalled == req.endpoint \in {"match_face", "face-recognition"}

\* the score in 1/200 percent, rounded up, from the squared distance d2
MatchScoreIs(s, d2) ==
    IF d2 >= 25 THEN s = 0
    ELSE /\ s \in 1..20000
         /\ (20000 - s) * (20000 - s) <= 16000000 * d2
         /\ 16000000 * d2 < (20001 - s) * (20001 - s)

\* entry i is of minimum distance, and the first such
FirstNearest(encoding, i) ==
    /\ \A j \in 1..Len(face_data) :
          SqDist(encoding, face_data[i].vec) <= SqDist(encoding, face_data[j].vec)
    /\ \A j \in 1..(i - 1) :
          SqDist(encoding, face_data[i].vec) < SqDist(encoding, face_data[j].vec)

\* C5: match_face selects the gallery entry of minimum Euclidean distance, the
\* first in iteration order on ties; it returns that entry's name only if its
\* distance is < threshold, otherwise no name, and in both cases the score
\* max(0, 1 - best distance) * 100 (0 for an empty gallery).
C5_MatchFaceSelectsFirstNearest ==
    MatchFaceCalled =>
        \A k \in 1..Len(loc.calls) :
            LET c == loc.calls[k]
            IN  IF face_data = <<>>
                THEN c.best_match = None /\ c.name = None /\ c.similarity = 0
                ELSE \E i \in 1..Len(face_data) :
                        LET d2 == SqDist(c.encoding, face_data[i].vec)
                        IN  /\ FirstNearest(c.encoding, i)
                            /\ c.best_match = Some(face_data[i].name)
                            /\ c.name = IF 16000000 * d2 < c.threshold * c.threshold
                                        THEN Some(face_data[i].name) ELSE None
                            /\ MatchScoreIs(c.similarity, d2)

\* two entries tie for the nearest and the first of them is returned
C5_Witness ==
    /\ MatchFaceCalled
    /\ \E k \in 1..Len(loc.calls) :
         \E i, j \in 1..Len(face_data) :
            /\ i < j
            /\ FirstNearest(loc.calls[k].encoding, i)
            /\ SqDist(loc.calls[k].encoding, face_data[i].vec)
                 = SqDist(loc.calls[k].encoding, face_data[j].vec)
            /\ loc.calls[k].name = Some(face_data[i].name)

---------------------------------------------------------------------------
(* C6 *)

VoiceScanned ==
    req.endpoint = "voice-recognition" /\ loc.scanned /\ voice_data # <<>>

\* entry i is of highest cosine similarity to the embedding a: with integer
\* norms, cos_i >= cos_j is (a.b_i) |b_j| >= (a.b_j) |b_i|
HighestCosine(a, i) ==
    \A j \in 1..Len(voice_data) :
        \E ni, nj \in 1..(2 * MaxVoiceCoord) :
            /\ ni * ni = Dot(voice_data[i].vec, voice_data[i].vec)
            /\ nj * nj = Dot(voice_data[j].vec, voice_data[j].vec)
            /\ Dot(a, voice_data[i].vec) * nj >= Dot(a, voice_data[j].vec) * ni

\* cos(a, b) >= 0.6
CosineWithin(a, b) ==
    Dot(a, b) >= 0 /\ 25 * Dot(a, b) * Dot(a, b) >= 9 * Dot(a, a) * Dot(b, b)

\* C6: whenever the voice gallery is non-empty the scan ends with a best
\* candidate set, the entry of highest cosine similarity, whatever the
\* similarities in [-1, 1] are; the candidate is in 'matches' if and only if
\* its similarity is >= 0.60, and 'matches' never holds more than one entry.
C6_BestCandidateAlwaysSet ==
    VoiceScanned =>
        /\ loc.best_match # None
        /\ \E i \in 1..Len(voice_data) :
              /\ loc.best_match = Some(voice_data[i].name)
              /\ HighestCosine(req.audio_file.emb, i)
              /\ Len(resp.matches) <= 1
              /\ (resp.matches # <<>>)
                    <=> CosineWithin(req.audio_file.emb, voice_data[i].vec)
              /\ resp.matches # <<>> => resp.matches[1].name = voice_data[i].name

---------------------------------------------------------------------------
(* C7 *)

IsLipSync == req.endpoint = "lip-sync-check"

IsFace(frame) == frame # NoFace

\* the lip gaps of the frames with a face, in order
Gaps == SelectSeq(req.video_data.frames, IsFace)

\* the request reaches the analysis of lip_movements
LipExtracted ==
    /\ IsLipSync
    /\ req.video_data.b64
    /\ req.audio_data.read
    /\ req.video_data.extract

\* C7: with fewer than 10 lip-movement entries the check fails with the
\* insufficient-video-data outcome whatever the audio length and the lip
\* gaps are, and the failure is a structured body with success = false and
\* lip_sync_detected = false, not a raised error.
C7_TooFewFramesFailSoftly ==
    (IsLipSync /\ Len(Gaps) < 10) =>
        /\ ~resp.raised
        /\ resp.success = FALSE
        /\ resp.lip_sync_detected = FALSE
        /\ LipExtracted =>
              /\ Len(loc.lip_movements) = Len(Gaps)
              /\ resp.message = <<"Error during lip sync analysis",
                                  "Insufficient video data for lip sync analysis">>

\* nine entries of wide movement under plenty of audio
C7_Witness ==
    /\ LipExtracted
    /\ Len(Gaps) = 9
    /\ \E i, j \in 1..Len(Gaps) : Gaps[i] = 0 /\ Gaps[j] = 40
    /\ req.audio_data.size = 2000
    /\ resp.message[2] = "Insufficient video data for lip sync analysis"

---------------------------------------------------------------------------
\* C8: malformed encoded media is a request-level failure on every endpoint
\* that decodes it, never a normal (HTTP 200) response.
C8_MalformedMediaFailsRequest ==
    /\ (req.endpoint = "face-recognition" /\ req.image_data.kind = "malformed")
          => resp.status # 200
    /\ (IsAuth /\ req.mode \in {"face", "both"} /\ req.image_data.kind = "malformed")
          => resp.status # 200
    /\ (IsLipSync /\ ~req.video_data.b64)
          => resp.status # 200

---------------------------------------------------------------------------
(* C9 *)

\* the bucket of the score max(0, 1 - dist) * 100 at squared distance d2:
\* score > 70 is dist < 0.3, score > 40 is dist < 0.6
BucketOf(d2) ==
    IF 4 * d2 < 9 THEN "high" ELSE IF d2 < 9 THEN "medium" ELSE "low"

MinSqDist(encoding) ==
    CHOOSE d \in { SqDist(encoding, face_data[i].vec) : i \in 1..Len(face_data) } :
        \A j \in 1..Len(face_data) : d <= SqDist(encoding, face_data[j].vec)

Named(call) == call.name # None

\* C9: the confidence label of every face record emitted, by identification
\* and by verification, positive or "No match", is the bucket of its score:
\* high above 70, else medium above 40, else low.
C9_FaceConfidenceIsBucket ==
    /\ (req.endpoint = "face-recognition" /\ resp.status = 200)
          => LET named == SelectSeq(loc.calls, Named)
             IN  /\ Len(resp.matches) = Len(named)
                 /\ \A k \in 1..Len(named) :
                       /\ resp.matches[k].name = named[k].name[1]
                       /\ resp.matches[k].confidence
                            = BucketOf(MinSqDist(named[k].encoding))
    /\ (IsAuth /\ resp.face_match # None)
          => resp.face_match[1].confidence
               = BucketOf(SqDist(req.image_data.faces[1],
                                 Lookup(face_data, req.profile)))

\* a verification at distance 0.6 exactly: score 40.00, "No match", low
C9_Witness ==
    /\ IsAuth
    /\ resp.face_match # None
    /\ resp.face_match[1].similarity = 4000
    /\ resp.face_match[1].name = "No match"
    /\ resp.face_match[1].confidence = "low"

---------------------------------------------------------------------------
(* C10 *)

\* n^2 times the variance of the gaps g, in units of 0.0001: the squared
\* differences summed over the pairs
PairSquares(g) ==
    SeqSum([i \in 1..Len(g) |->
              SeqSum([j \in 1..Len(g) |->
                        IF i < j THEN (g[i] - g[j]) * (g[i] - g[j]) ELSE 0])])

FracIs(c, n, d) == c[1] * d = n * c[2]

\* C10: with at least 10 lip-movement entries, lip_sync_detected is true if
\* and only if the variance of the lip gaps is > 0.001 and the audio is
\* longer than 1000 bytes; the confidence is min(0.95, 0.6 + variance * 1000)
\* when detected and max(0.1, variance * 500) when not.  (The response
\* carries that confidence rounded to three decimals.)
C10_LipSyncVerdict ==
    (LipExtracted /\ Len(Gaps) >= 10) =>
        LET n2 == Len(Gaps) * Len(Gaps)
            p  == PairSquares(Gaps)
            c  == loc.confidence
        IN  /\ resp.status = 200
            /\ resp.success
            /\ resp.lip_sync_detected <=> (p > 10 * n2 /\ req.audio_data.size > 1000)
            /\ IF resp.lip_sync_detected
               THEN IF 20 * (6 * n2 + p) > 19 * 10 * n2
                    THEN FracIs(c, 19, 20)
                    ELSE FracIs(c, 6 * n2 + p, 10 * n2)
               ELSE IF 10 * p > 20 * n2
                    THEN FracIs(c, p, 20 * n2)
                    ELSE FracIs(c, 1, 10)
            /\ 2 * (1000 * c[1] - resp.confidence * c[2]) <= c[2]
            /\ 2 * (resp.confidence * c[2] - 1000 * c[1]) <= c[2]

\* detected on 1001 bytes of audio
C10_Witness ==
    /\ LipExtracted
    /\ Len(Gaps) >= 10
    /\ req.audio_data.size = 1001
    /\ resp.lip_sync_detected
    /\ resp.confidence = 950

---------------------------------------------------------------------------
(* C11 *)

\* the record is there and names the requested profile
Names(match) ==
    /\ match # None
    /\ match[1].name = req.profile
    /\ match[1].name # "No match"

\* C11: in every /api/authenticate response, for any mode and inputs,
\* 'success' equals 'authentication_passed'; whenever the request passes,
\* each modality the mode requires has a match record naming the requested
\* profile; a mode other than face, voice and both never passes.
C11_PassedMeansRecordsNameProfile ==
    IsAuth =>
        /\ resp.status = 200
        /\ resp.success = resp.authentication_passed
        /\ resp.authentication_passed =>
              /\ req.mode \in {"face", "voice", "both"}
              /\ req.mode \in {"face", "both"} => Names(resp.face_match)
              /\ req.mode \in {"voice", "both"} => Names(resp.voice_match)
              /\ resp.message = <<"Authentication successful">>
        /\ req.mode \notin {"face", "voice", "both"} =>
              /\ ~resp.authentication_passed
              /\ resp.face_match = None
              /\ resp.voice_match = None

\* a "both" request passes on two records of the profile while another
\* profile of the gallery would not have matched the same face
C11_Witness ==
    /\ IsAuth
    /\ req.mode = "both"
    /\ resp.success
    /\ Names(resp.face_match)
    /\ Names(resp.voice_match)
    /\ \E i \in 1..Len(face_data) :
          /\ face_data[i].name # req.profile
          /\ SqDist(req.image_data.faces[1], face_data[i].vec) >= 9

---------------------------------------------------------------------------
(* C12 *)

LipAnalysed == LipExtracted /\ Len(Gaps) >= 10

\* C12 as claimed: a detected lip sync reports the confidence 0.95 exactly,
\* and every successful analysis reports a confidence in [0.1, 0.95].
C12_ConfidenceWithinRange ==
    LipAnalysed =>
        /\ resp.lip_sync_detected => resp.confidence = 950
        /\ resp.confidence >= 100
        /\ resp.confidence <= 950

\* C12, amended: a detected lip sync reports the confidence 0.95 exactly;
\* every successful analysis has a confidence of at least 0.1; the confidence
\* is above 0.95 exactly when the audio is at most 1000 bytes long and the
\* variance of the lip gaps is above 0.0019, where it is variance * 500.
C12_ConfidenceRange ==
    LipAnalysed =>
        LET n2 == Len(Gaps) * Len(Gaps)
            p  == PairSquares(Gaps)
            c  == loc.confidence
        IN  /\ resp.lip_sync_detected
                 => resp.confidence = 950 /\ FracIs(c, 19, 20)
            /\ resp.confidence >= 100
            /\ 10 * c[1] >= c[2]
            /\ (20 * c[1] > 19 * c[2])
                 <=> (req.audio_data.size <= 1000 /\ p > 19 * n2)
            /\ 20 * c[1] > 19 * c[2]
                 => /\ ~resp.lip_sync_detected
                    /\ FracIs(c, p, 20 * n2)
                    /\ resp.confidence >= 950

\* wide movement without audio: an analysis that reports a confidence above 1
C12_Witness ==
    /\ LipAnalysed
    /\ resp.success
    /\ ~resp.lip_sync_detected
    /\ req.audio_data.size = 0
    /\ resp.confidence > 1000

=============================================================================
